---- MODULE Spec2Model ----
(***************************************************************************)
(* Model of src/main.rs: the DNS resolver conformance probes               *)
(* (support_simple_answers, support_edns0, support_edns0_future,           *)
(* support_simple_answers_future) and the two branches of main that run    *)
(* them and print one line per probe.                                      *)
(*                                                                         *)
(* The trust_dns library is the environment: every call into it that       *)
(* returns a Result may return Ok or Err, and every exchange resolves to   *)
(* a reply (some number of answers, an optional EDNS record with a         *)
(* version) or to a transport error.                                       *)
(***************************************************************************)
EXTENDS Integers, Sequences, FiniteSets, TLC

VARIABLES mode, pc, out, inflight, sent, started

vars == <<mode, pc, out, inflight, sent, started>>

(* ---------------- bounds of the environment ---------------- *)

\* largest number of answer records a reply carries in the model
MaxAnswers == 2

\* largest EDNS version a reply carries in the model (u8 in the library)
MaxVersion == 2

(* ---------------- data ---------------- *)

\* lazy_static TESTING_SERVER
TESTING_SERVER == "dnssec-tools.org."

\* number of println! lines of the longer branch of main
NumProbeSlots == 3

\* classes of io/client error the library can resolve an exchange to
TransportErrors == {"timeout", "connection reset", "malformed response"}

\* Option<Edns> of a reply: <<>> is None, <<v>> is Some(edns) with version v
ReplyEdns == {<<>>} \cup { <<v>> : v \in 0..MaxVersion }

\* what reactor.run(response_future) / client.query can return
ExchangeResults ==
    [kind : {"reply"}, answers : 0..MaxAnswers, edns : ReplyEdns, err : {"none"}]
      \cup
    [kind : {"error"}, answers : {0}, edns : {<<>>}, err : TransportErrors]

\* result slot of a probe that returned before sending anything
NotSent == [kind |-> "notsent", answers |-> 0, edns |-> <<>>, err |-> "io error"]

\* Query::query(TESTING_SERVER.clone(), RecordType::A)
QueryA == [name |-> TESTING_SERVER, class |-> "IN", rtype |-> "A"]

\* Result values: Ok(()), Err(reason)
OkUnit == [outer |-> "Ok", inner |-> "unit", reason |-> ""]

Err(r) == [outer |-> "Err", inner |-> "none", reason |-> r]

\* enum Edns0TestResult, as the Item of the future: Ok(Success), Ok(Fail(r))
Edns0Success == [outer |-> "Ok", inner |-> "Success", reason |-> ""]

Edns0Fail(r) == [outer |-> "Ok", inner |-> "Fail", reason |-> r]

\* a printed value reports a pass
Passed(v) == v.outer = "Ok" /\ v.inner # "Fail"

(* ---------------- the probes, as functions of the exchange ---------------- *)

\* message handed to client.query by support_simple_answers
support_simple_answers_msg == [query |-> QueryA, edns |-> <<>>]

\* support_simple_answers: client.query(..).map(|_| ()).map_err(|_| "query failed")
support_simple_answers(res) ==
    IF res.kind = "reply" THEN OkUnit ELSE Err("query failed")

\* message handed to dns_handle.lookup by support_simple_answers_future
support_simple_answers_future_msg == [query |-> QueryA, edns |-> <<>>]

\* support_simple_answers_future: lookup(..).map(|_| ()), error passed through
support_simple_answers_future(res) ==
    IF res.kind = "reply" THEN OkUnit ELSE Err(res.err)

\* message built by support_edns0 (lines 90-96)
support_edns0_msg ==
    [query |-> QueryA,
     edns  |-> << [version |-> 0, options |-> << [code |-> 0, data |-> <<>>] >>] >>]

support_edns0_invertedVersion(res) ==
    IF res.kind = "reply"
    THEN IF res.edns # <<>>
         THEN IF res.edns[1] # 0 THEN OkUnit ELSE Err("Wrong EDNS option")
         ELSE Err("No EDNS option")
    ELSE Err("error in reactor")

support_edns0_errAsNoEdns(res) ==
    IF res.kind = "reply" /\ res.edns # <<>>
    THEN IF res.edns[1] = 0 THEN OkUnit ELSE Err("Wrong EDNS option")
    ELSE Err("No EDNS option")

\* support_edns0: the if-let chain on reactor.run(response_future) (lines 103-115)
support_edns0(res) ==
    IF res.kind = "reply"
    THEN IF res.edns # <<>>
         THEN IF res.edns[1] = 0 THEN OkUnit ELSE Err("Wrong EDNS option")
         ELSE Err("No EDNS option")
    ELSE Err("error in reactor")

\* message built by support_edns0_future (lines 127-133)
support_edns0_future_msg ==
    [query |-> QueryA,
     edns  |-> << [version |-> 0, options |-> << [code |-> 0, data |-> <<>>] >>] >>]

support_edns0_future_anyVersion(res) ==
    IF res.kind = "reply"
    THEN IF res.edns # <<>>
         THEN Edns0Success
         ELSE Edns0Fail("No EDNS option")
    ELSE Err("Internal error in EDNS0 Future")

\* support_edns0_future: send(msg).map(..).map_err(..) (lines 135-148)
support_edns0_future(res) ==
    IF res.kind = "reply"
    THEN IF res.edns # <<>>
         THEN IF res.edns[1] = 0 THEN Edns0Success ELSE Edns0Fail("Wrong EDNS option")
         ELSE Edns0Fail("No EDNS option")
    ELSE Err("Internal error in EDNS0 Future")

(* ---------------- steps shared by the branches of main ---------------- *)

\* a library constructor followed by .unwrap(): Ok continues, Err panics
Unwrap(from, to) ==
    /\ pc = from
    /\ \E ok \in BOOLEAN : pc' = IF ok THEN to ELSE "panic"
    /\ UNCHANGED <<mode, out, inflight, sent, started>>

SendQueryTwice(i, msg) ==
    /\ inflight' = inflight \o << [probe |-> i, msg |-> msg], [probe |-> i, msg |-> msg] >>
    /\ sent' = [sent EXCEPT ![i] = @ + 2]

\* one message handed to the library for sending
SendQuery(i, msg) ==
    /\ inflight' = Append(inflight, [probe |-> i, msg |-> msg])
    /\ sent' = [sent EXCEPT ![i] = @ + 1]

\* println!("<label>: {:?}", value), with the provenance of the value
Line(label, fn, tr, msg, res, value) ==
    [label |-> label, fn |-> fn, tr |-> tr, msg |-> msg, res |-> res, verdict |-> value]

\* the blocking call returns: the exchange resolved, the value is printed
Resolve(from, to, label, fn, tr, res, value) ==
    /\ pc = from
    /\ inflight # <<>>
    /\ out' = Append(out, Line(label, fn, tr, Head(inflight).msg, res, value))
    /\ inflight' = Tail(inflight)
    /\ pc' = to
    /\ UNCHANGED <<mode, sent, started>>

(* ---------------- main ---------------- *)

\* if let Some(_) = env::args().nth(1)
main_args ==
    /\ pc = "L166"
    /\ pc' = IF mode = "arg" THEN "L167" ELSE "L182"
    /\ UNCHANGED <<mode, out, inflight, sent, started>>

\* --- branch with an argument ---

\* let connection = UdpClientConnection::new(address).unwrap();
arg_udp_connection == Unwrap("L167", "L169")

\* support_simple_answers(udp_client): client.query sends the query
arg_udp_answers_call ==
    /\ pc = "L169"
    /\ started' = [started EXCEPT ![1] = TRUE]
    /\ SendQuery(1, support_simple_answers_msg)
    /\ pc' = "L169_wait"
    /\ UNCHANGED <<mode, out>>

\* println!("Support UDP answers: {:?}", ..)
arg_udp_answers_return ==
    \E res \in ExchangeResults :
        Resolve("L169_wait", "L172", "Support UDP answers",
                "support_simple_answers", "UDP", res, support_simple_answers(res))

\* let connection = TcpClientConnection::new(address).unwrap();
arg_tcp_connection == Unwrap("L172", "L174")

\* support_simple_answers(tcp_client)
arg_tcp_answers_call ==
    /\ pc = "L174"
    /\ started' = [started EXCEPT ![2] = TRUE]
    /\ SendQuery(2, support_simple_answers_msg)
    /\ pc' = "L174_wait"
    /\ UNCHANGED <<mode, out>>

\* println!("Support TCP answers: {:?}", ..)
arg_tcp_answers_return ==
    \E res \in ExchangeResults :
        Resolve("L174_wait", "L177", "Support TCP answers",
                "support_simple_answers", "TCP", res, support_simple_answers(res))

\* support_edns0(connection): Core::new()?, new_stream(..).unwrap(), send(msg)
arg_edns0_call ==
    /\ pc = "L177"
    /\ started' = [started EXCEPT ![3] = TRUE]
    /\ \E coreOk \in BOOLEAN, streamOk \in BOOLEAN :
         IF ~coreOk
         THEN /\ out' = Append(out, Line("Support EDNS0", "support_edns0", "UDP",
                                         support_edns0_msg, NotSent, Err(NotSent.err)))
              /\ pc' = "done"
              /\ UNCHANGED <<inflight, sent>>
         ELSE IF ~streamOk
         THEN /\ pc' = "panic"
              /\ UNCHANGED <<out, inflight, sent>>
         ELSE /\ SendQuery(3, support_edns0_msg)
              /\ pc' = "L177_wait"
              /\ UNCHANGED out
    /\ UNCHANGED mode

\* println!("Support EDNS0: {:?}", ..)
arg_edns0_return ==
    \E res \in ExchangeResults :
        Resolve("L177_wait", "done", "Support EDNS0",
                "support_edns0", "UDP", res, support_edns0(res))

\* --- branch without an argument ---

\* let udp_conn = UdpClientConnection::new(address).unwrap();
noarg_udp_conn == Unwrap("L182", "L183")

\* let tcp_conn = TcpClientConnection::new(address).unwrap();
noarg_tcp_conn == Unwrap("L183", "L186")

\* let mut reactor = Core::new().unwrap();
noarg_reactor == Unwrap("L186", "L190")

\* let (udp_stream, udp_stream_handle) = udp_conn.new_stream(handle).unwrap();
noarg_udp_stream == Unwrap("L190", "L191")

\* let (tcp_stream, tcp_stream_handle) = tcp_conn.new_stream(handle).unwrap();
noarg_tcp_stream == Unwrap("L191", "L195")

\* support_simple_answers_future(&mut udp_client_handle)
noarg_basic_call ==
    /\ pc = "L195"
    /\ started' = [started EXCEPT ![1] = TRUE]
    /\ SendQuery(1, support_simple_answers_future_msg)
    /\ pc' = "L195_wait"
    /\ UNCHANGED <<mode, out>>

\* println!("Basic UDP: {:?}", reactor.run(..))
noarg_basic_return ==
    \E res \in ExchangeResults :
        Resolve("L195_wait", "L202", "Basic UDP",
                "support_simple_answers_future", "UDP", res,
                support_simple_answers_future(res))

\* support_edns0_future(&mut udp_client_handle)
noarg_edns0_call ==
    /\ pc = "L202"
    /\ started' = [started EXCEPT ![2] = TRUE]
    /\ SendQuery(2, support_edns0_future_msg)
    /\ pc' = "L202_wait"
    /\ UNCHANGED <<mode, out>>

\* println!("Basic TCP: {:?}", reactor.run(support_edns0_future(&mut udp_client_handle)))
noarg_edns0_return ==
    \E res \in ExchangeResults :
        Resolve("L202_wait", "done", "Basic TCP",
                "support_edns0_future", "UDP", res, support_edns0_future(res))

(* ---------------- specification ---------------- *)

Init ==
    /\ mode \in {"arg", "noarg"}
    /\ pc = "L166"
    /\ out = <<>>
    /\ inflight = <<>>
    /\ sent = [i \in 1..NumProbeSlots |-> 0]
    /\ started = [i \in 1..NumProbeSlots |-> FALSE]

Next ==
    \/ main_args
    \/ arg_udp_connection
    \/ arg_udp_answers_call
    \/ arg_udp_answers_return
    \/ arg_tcp_connection
    \/ arg_tcp_answers_call
    \/ arg_tcp_answers_return
    \/ arg_edns0_call
    \/ arg_edns0_return
    \/ noarg_udp_conn
    \/ noarg_tcp_conn
    \/ noarg_reactor
    \/ noarg_udp_stream
    \/ noarg_tcp_stream
    \/ noarg_basic_call
    \/ noarg_basic_return
    \/ noarg_edns0_call
    \/ noarg_edns0_return

Spec == Init /\ [][Next]_vars

\* main is one thread: whenever it can take a step it does (a blocking call
\* returns once the library resolves the exchange)
LiveSpec == Init /\ [][Next]_vars /\ WF_vars(Next)

(* ---------------- properties ---------------- *)

\* the lines printed so far
Lines == { out[i] : i \in 1..Len(out) }

EdnsProbes == {"support_edns0", "support_edns0_future"}

BasicProbes == {"support_simple_answers", "support_simple_answers_future"}

EdnsLines == { l \in Lines : l.fn \in EdnsProbes }

BasicLines == { l \in Lines : l.fn \in BasicProbes }

ProtocolReasons == {"No EDNS option", "Wrong EDNS option"}

ReactorClassReasons == {"error in reactor", "Internal error in EDNS0 Future"}

\* C1: for every reply an EDNS0 probe (support_edns0 or support_edns0_future)
\* received, the verdict is a pass iff the reply has an EDNS record of
\* version 0; an EDNS record of another version gives the failure
\* "Wrong EDNS option", no EDNS record gives the failure "No EDNS option".
C1_EdnsVerdict ==
    \A l \in EdnsLines :
        l.res.kind = "reply" =>
            /\ Passed(l.verdict) <=> (l.res.edns # <<>> /\ l.res.edns[1] = 0)
            /\ (l.res.edns # <<>> /\ l.res.edns[1] # 0) =>
                   (~Passed(l.verdict) /\ l.verdict.reason = "Wrong EDNS option")
            /\ l.res.edns = <<>> =>
                   (~Passed(l.verdict) /\ l.verdict.reason = "No EDNS option")

C1_Witness ==
    \E l \in EdnsLines :
        l.res.kind = "reply" /\ l.res.edns = <<0>> /\ Passed(l.verdict)

\* C2: for every reply a basic answer probe received, the verdict is a pass
\* iff the reply has at least one answer record, and a reply without answer
\* records gives the failure "no answer".
C2_AnswerVerdict ==
    \A l \in BasicLines :
        l.res.kind = "reply" =>
            /\ Passed(l.verdict) <=> l.res.answers >= 1
            /\ l.res.answers = 0 => l.verdict.reason = "no answer"

\* C3: every transport failure of a probe, stream and reactor setup
\* included, ends in a failed verdict with a non-empty reason, and the
\* process never panics.
C3_NoCrashOnTransportFailure ==
    /\ pc # "panic"
    /\ \A l \in Lines :
           l.res.kind # "reply" => (~Passed(l.verdict) /\ l.verdict.reason # "")

\* the lines each branch of main is written to print, in order
ConfiguredLabels ==
    IF mode = "arg"
    THEN <<"Support UDP answers", "Support TCP answers", "Support EDNS0">>
    ELSE <<"Basic UDP", "Basic TCP">>

\* C4: in each run mode, whatever the outcomes of the probes, once main has
\* stopped every probe of the mode has exactly one printed line, in the
\* fixed order.
C4_EveryProbeReported ==
    /\ Len(out) <= Len(ConfiguredLabels)
    /\ \A i \in 1..Len(out) : out[i].label = ConfiguredLabels[i]
    /\ pc \in {"done", "panic"} => Len(out) = Len(ConfiguredLabels)

\* C5: every completed run, in either mode, has run the basic answer probe
\* over UDP and over TCP and printed a verdict for each.
C5_BasicOverBothTransports ==
    pc = "done" =>
        /\ \E l \in BasicLines : l.tr = "UDP"
        /\ \E l \in BasicLines : l.tr = "TCP"

\* C6: when the exchange of an EDNS0 probe fails at the transport level the
\* probe fails with a reason of the "error in reactor" class, which is
\* neither "No EDNS option" nor "Wrong EDNS option"; a received reply is
\* never reported with a reason of that class.
C6_TransportReasonDistinct ==
    /\ ReactorClassReasons \cap ProtocolReasons = {}
    /\ \A l \in EdnsLines :
           /\ l.res.kind = "error" =>
                  /\ ~Passed(l.verdict)
                  /\ l.verdict.reason \in ReactorClassReasons
                  /\ l.verdict.reason \notin ProtocolReasons
           /\ l.res.kind = "reply" => l.verdict.reason \notin ReactorClassReasons

C6_Witness ==
    \E l \in EdnsLines : l.res.kind = "error" /\ ~Passed(l.verdict)

\* probe i is the i-th line of the run: its query goes out only once the
\* i-1 probes before it have printed their lines
SequentialSends ==
    /\ Len(inflight) <= 1
    /\ \A i \in 1..NumProbeSlots : sent[i] > 0 => Len(out) >= i - 1
    /\ inflight # <<>> => Head(inflight).probe = Len(out) + 1

\* C7 as stated: probes run strictly one after another with at most one
\* query outstanding, and each probe that has resolved sent exactly one
\* query.
C7_ExactlyOneQueryEach ==
    /\ SequentialSends
    /\ \A i \in 1..Len(out) : sent[i] = 1

\* C7 amended: probes run strictly one after another with at most one query
\* outstanding; a probe never sends more than one query, and sends exactly
\* one whenever its exchange resolved (reply or transport error); a probe
\* whose reactor could not be created returns without sending any.
C7_AtMostOneQueryEach ==
    /\ SequentialSends
    /\ \A i \in 1..NumProbeSlots : sent[i] <= 1
    /\ \A i \in 1..Len(out) : out[i].res.kind \in {"reply", "error"} => sent[i] = 1
    /\ \A i \in 1..Len(out) : out[i].res.kind = "notsent" => sent[i] = 0

C7_Witness ==
    /\ inflight # <<>>
    /\ Len(out) >= 1
    /\ sent[Len(out) + 1] = 1

\* C8: every probe execution that has started eventually has its verdict
\* (its printed line); it never stays without one forever.
C8_ProbeTerminates ==
    \A i \in 1..NumProbeSlots : (started[i] ~> (Len(out) >= i))

\* under LiveSpec an outstanding query never stays outstanding: the blocking
\* call returns with a reply or a transport error (a timeout among them)
AwaitingResolves == (inflight # <<>>) ~> (inflight = <<>>)

\* the probe and transport a printed label names ("Support EDNS0" names no
\* transport)
LabelKind(label) ==
    IF label \in {"Support UDP answers", "Support TCP answers", "Basic UDP", "Basic TCP"}
    THEN "answers" ELSE "edns0"

LabelTransports(label) ==
    IF label \in {"Support UDP answers", "Basic UDP"} THEN {"UDP"}
    ELSE IF label \in {"Support TCP answers", "Basic TCP"} THEN {"TCP"}
    ELSE {"UDP", "TCP"}

\* C9: every printed line is labelled with the probe that produced its
\* verdict and the transport that probe ran over.
C9_LabelMatchesProbe ==
    \A l \in Lines :
        /\ LabelKind(l.label) = (IF l.fn \in BasicProbes THEN "answers" ELSE "edns0")
        /\ l.tr \in LabelTransports(l.label)

\* the value the other implementation of the EDNS0 probe returns for the
\* exchange result of line l, and the message it sends
OtherEdnsVerdict(l) ==
    IF l.fn = "support_edns0" THEN support_edns0_future(l.res) ELSE support_edns0(l.res)

OtherEdnsMsg(l) ==
    IF l.fn = "support_edns0" THEN support_edns0_future_msg ELSE support_edns0_msg

ExchangedEdnsLines == { l \in EdnsLines : l.res.kind \in {"reply", "error"} }

\* C10 as stated: for every exchange outcome, support_edns0 and
\* support_edns0_future send the same message and return the same value:
\* same pass/fail, same reason, same representation of a failure.
C10_SameValue ==
    \A l \in ExchangedEdnsLines :
        /\ l.msg = OtherEdnsMsg(l)
        /\ l.verdict = OtherEdnsVerdict(l)

\* C10 amended: for every exchange outcome the two implementations send the
\* same message and agree on pass/fail, and for every received reply they
\* give the same reason; on a transport error their reasons differ, and a
\* protocol mismatch is an Err in support_edns0 but an Ok(Fail) item in
\* support_edns0_future.
C10_SameOutcome ==
    \A l \in ExchangedEdnsLines :
        /\ l.msg = OtherEdnsMsg(l)
        /\ Passed(l.verdict) <=> Passed(OtherEdnsVerdict(l))
        /\ l.res.kind = "reply" => l.verdict.reason = OtherEdnsVerdict(l).reason
        /\ l.res.kind = "error" =>
               /\ l.verdict.outer = "Err" /\ OtherEdnsVerdict(l).outer = "Err"
               /\ l.verdict.reason # OtherEdnsVerdict(l).reason
        /\ (l.res.kind = "reply" /\ ~Passed(l.verdict)) =>
               l.verdict.outer # OtherEdnsVerdict(l).outer

C10_Witness ==
    \E l \in ExchangedEdnsLines :
        l.res.kind = "reply" /\ l.res.edns # <<>> /\ l.res.edns[1] # 0

====
